---- MODULE Spec2Model ----
(***************************************************************************)
(* Free Fire screen capture demo.                                          *)
(*                                                                         *)
(* Two parts are modelled:                                                 *)
(*   - the Analysis Service: the Flask routes /start_capture and           *)
(*     /upload_screenshot of main.py and of deploy_render.py, as pure      *)
(*     functions of the request (the apps keep no state);                  *)
(*   - the Capture Agent: the script of the page served by main.py's       *)
(*     home(), as a state machine over the script's globals and the        *)
(*     browser objects they refer to (streams, video elements, interval    *)
(*     timers, pending promises).                                          *)
(***************************************************************************)
EXTENDS Integers, Sequences, FiniteSets, TLC

VARIABLES
    \* ---- Analysis Service, as seen by an HTTP client
    reply,        \* the last request served and its response
    started,      \* per app: the response of its latest /start_capture
    \* ---- Capture Agent: globals of the page script (main.py 38-46)
    stream,       \* let stream
    video,        \* let video
    ctx,          \* let canvas / let ctx (set together, never reset)
    intervalId,   \* let intervalId
    btnDisabled,  \* startBtn.disabled
    btnText,      \* startBtn.textContent
    status,       \* status.textContent without the "Status: " prefix
    \* ---- Capture Agent: browser state the script acts on
    support,      \* what checkSupport finds: "ok", "nomedia", "http"
    tts,          \* 'speechSynthesis' in window
    hidden,       \* document.hidden
    pending,      \* getDisplayMedia promises not yet settled
    nextId,       \* id of the next stream / video element / timer created
    live,         \* streams whose tracks are live
    loading,      \* video elements whose onloadedmetadata has not fired
    timers,       \* armed interval timers
    inflight,     \* fetches awaiting their response
    speaking,     \* speechSynthesis.speaking
    unloaded,     \* the beforeunload handler has run: the document is gone
    stopped,      \* stopCapture has run and startCapture has not run since
    out           \* what the last handler did: log lines, speech, upload

svcVars == <<reply, started>>
agentVars == <<stream, video, ctx, intervalId, btnDisabled, btnText, status,
               support, tts, hidden, pending, nextId, live, loading, timers,
               inflight, speaking, unloaded, stopped, out>>
vars == <<reply, started, stream, video, ctx, intervalId, btnDisabled,
          btnText, status, support, tts, hidden, pending, nextId, live,
          loading, timers, inflight, speaking, unloaded, stopped, out>>

\* ---------------------------------------------------------------- bounds
MaxParts == 2      \* file parts in one multipart body
MaxStreams == 2    \* screen-share grants in one run
MaxPending == 2    \* permission prompts open at once
MaxInflight == 2   \* uploads awaiting a response at once

\* ------------------------------------------------------------- constants
Null == 0          \* null: no stream, video element, context or timer

\* ------------------------------------------------------ Analysis Service
Apps == {"main", "deploy_render"}
Routes == {"/start_capture", "/upload_screenshot"}

\* One part of a multipart/form-data body that carries a filename.
FileParts == [name : {"screenshot", "image"},
              filename : {"", "screenshot.png"},
              bytes : {"png1x1", "junk"}]

RECURSIVE SeqsUpTo(_)
SeqsUpTo(n) ==
    IF n = 0 THEN {<<>>}
    ELSE LET shorter == SeqsUpTo(n - 1)
         IN  shorter \cup {Append(s, p) : s \in {t \in shorter : Len(t) = n - 1},
                                          p \in FileParts}

\* POSTs: /start_capture reads no body; /upload_screenshot any multipart body
Requests ==
    {[route |-> "/start_capture", files |-> <<>>]}
        \cup [route : {"/upload_screenshot"}, files : SeqsUpTo(MaxParts)]

\* 'screenshot' in request.files
FilesHas(files, name) == \E i \in 1..Len(files) : files[i].name = name

\* request.files['screenshot']: the first part of that name
FilesGet(files, name) ==
    files[CHOOSE i \in 1..Len(files) :
            /\ files[i].name = name
            /\ \A j \in 1..(i - 1) : files[j].name # name]

\* nothing served yet
NoReply == [app |-> "", req |-> [route |-> "", files |-> <<>>],
            resp |-> [status |-> 0, mimetype |-> "", json |-> {}, data |-> ""]]

\* jsonify(obj) [, status]: a JSON object is the set of its key/value pairs
jsonify(obj, code) ==
    [status |-> code, mimetype |-> "application/json", json |-> obj, data |-> ""]

\* a view returning a str: 200, the string as the body
TextResponse(msg) ==
    [status |-> 200, mimetype |-> "text/html", json |-> {}, data |-> msg]

\* mutant: the view remembers that it was called
main_start_capture_stateful ==
    LET message == IF started["main"] = NoReply.resp
                   THEN "Capture started! Use frontend button."
                   ELSE "Capture already running."
    IN  jsonify({<<"status", "success">>, <<"message", message>>}, 200)

main_start_capture ==
    LET message == "Capture started! Use frontend button."
    IN  jsonify({<<"status", "success">>, <<"message", message>>}, 200)

main_upload_screenshot(files) ==
    IF ~FilesHas(files, "screenshot")
    THEN jsonify({<<"error", "No screenshot provided">>}, 400)
    ELSE LET file == FilesGet(files, "screenshot")
         IN  IF file.filename = ""
             THEN jsonify({<<"error", "No file selected">>}, 400)
             ELSE LET response_msg == "Screenshot received! Analysis: Enemy spotted at 3 o'clock. Reload and fire! Health low - heal up."
                  IN  TextResponse(response_msg)

deploy_start_capture ==
    LET message == "Capture started! Check your local machine."
    IN  jsonify({<<"status", "success">>, <<"message", message>>}, 200)

deploy_upload_screenshot(files) ==
    IF ~FilesHas(files, "screenshot")
    THEN jsonify({<<"error", "No screenshot">>}, 400)
    ELSE LET response_msg == "Screenshot received! Analysis: Enemy at 12 o'clock."
         IN  TextResponse(response_msg)

\* Flask's routing of a POST to the view of the app
Dispatch(app, req) ==
    IF req.route = "/start_capture"
    THEN IF app = "main" THEN main_start_capture ELSE deploy_start_capture
    ELSE IF app = "main" THEN main_upload_screenshot(req.files)
                         ELSE deploy_upload_screenshot(req.files)


\* --------------------------------------------------------- Capture Agent
StreamIds == 1..MaxStreams

NoResp == [status |-> 0, statusText |-> "", text |-> "", err |-> ""]

\* What one handler run did: the lines it passed to log(), the texts it
\* passed to speechSynthesis.speak(), whether it started a fetch, and for a
\* response handler the response it handled.
Did(op, resp, logged, spoke, uploaded) ==
    [op |-> op, resp |-> resp, logged |-> logged, spoke |-> spoke,
     uploaded |-> uploaded]

\* formData.append('screenshot', dataURItoBlob(imageData), 'screenshot.png')
AgentFiles ==
    <<[name |-> "screenshot", filename |-> "screenshot.png", bytes |-> "png854x480"]>>

\* The fetch Response the page sees for a response of the service.
FetchResponse(r) ==
    [status |-> r.status, statusText |-> IF r.status = 200 THEN "OK" ELSE "BAD REQUEST",
     text |-> r.data, err |-> ""]

\* Responses produced on the way to the service rather than by its views.
GatewayFailures ==
    {[status |-> 500, statusText |-> "INTERNAL SERVER ERROR", text |-> "", err |-> ""],
     [status |-> 502, statusText |-> "Bad Gateway", text |-> "", err |-> ""]}

\* fetch() rejecting: no response at all.
NetworkErrors ==
    {[status |-> 0, statusText |-> "", text |-> "", err |-> "Failed to fetch"]}

Outcomes ==
    {FetchResponse(main_upload_screenshot(AgentFiles))}
        \cup GatewayFailures \cup NetworkErrors

\* response.ok
ResponseOk(r) == r.err = "" /\ r.status >= 200 /\ r.status <= 299

\* getDisplayMedia rejecting
MediaErrors ==
    {[name |-> "NotAllowedError", message |-> "Permission denied"],
     [name |-> "AbortError", message |-> "Error starting capture"]}

\* video.ended of the element showing stream v (element and stream share the id)
Ended(v) == v \notin live

\* the guard of captureAndSend: if (!video || video.ended || !ctx) return;
CaptureReturnsEarly == video = Null \/ Ended(video) \/ ctx = Null

\* captureAndSend up to its first await: draw the frame, start the fetch.
\* Yields the number of fetches in flight afterwards.
captureAndSend ==
    IF CaptureReturnsEarly THEN inflight ELSE inflight + 1

\* The model holds at most MaxInflight fetches.
CaptureFits == CaptureReturnsEarly \/ inflight < MaxInflight

\* stopCapture(), run by handler op
stopCapture(op) ==
    /\ timers' = IF intervalId # Null THEN timers \ {intervalId} ELSE timers
    /\ intervalId' = Null
    /\ live' = IF stream # Null THEN live \ {stream} ELSE live
    /\ stream' = Null
       \* video.srcObject = null restarts the element's load algorithm,
       \* which drops its queued loadedmetadata task
    /\ loading' = IF video # Null THEN loading \ {video} ELSE loading
    /\ video' = Null
    /\ status' = "Stopped"
    /\ btnDisabled' = FALSE
    /\ btnText' = "Send SS"
    /\ stopped' = TRUE
    /\ out' = Did(op, NoResp, <<"Capture stopped.">>, <<>>, FALSE)

\* click on startBtn: startCapture() up to `await getDisplayMedia`
Click ==
    /\ ~unloaded
    /\ ~btnDisabled
    /\ stopped' = FALSE
    /\ IF support = "nomedia"
       THEN /\ status' = "Unsupported Browser"
            /\ btnDisabled' = TRUE
            /\ out' = Did("click", NoResp, <<"Error: getDisplayMedia not supported.">>, <<>>, FALSE)
            /\ UNCHANGED pending
       ELSE IF support = "http"
       THEN /\ status' = "HTTPS Required"
            /\ btnDisabled' = TRUE
            /\ out' = Did("click", NoResp, <<"Error: Not HTTPS.">>, <<>>, FALSE)
            /\ UNCHANGED pending
       ELSE /\ pending < MaxPending
            /\ pending' = pending + 1
            /\ out' = Did("click", NoResp, <<>>, <<>>, FALSE)
            /\ UNCHANGED <<status, btnDisabled>>
    /\ UNCHANGED <<stream, video, ctx, intervalId, btnText, support, tts, hidden,
                   nextId, live, loading, timers, inflight, speaking>>
    /\ UNCHANGED <<unloaded, svcVars>>

\* getDisplayMedia resolves: the rest of startCapture's try block
Grant ==
    /\ ~unloaded
    /\ pending > 0
    /\ nextId <= MaxStreams
    /\ pending' = pending - 1
    /\ stream' = nextId
    /\ video' = nextId
    /\ live' = live \cup {nextId}
    /\ loading' = loading \cup {nextId}
    /\ nextId' = nextId + 1
    /\ ctx' = 1
    /\ status' = "Capturing & Sending... (Stop sharing screen to end)"
    /\ btnDisabled' = TRUE
    /\ btnText' = "Capturing..."
    /\ out' = Did("grant", NoResp, <<>>, <<>>, FALSE)
    /\ UNCHANGED <<intervalId, support, tts, hidden, timers, inflight, speaking, stopped>>
    /\ UNCHANGED <<unloaded, svcVars>>

\* getDisplayMedia rejects: startCapture's catch block
Deny(err) ==
    /\ ~unloaded
    /\ pending > 0
    /\ pending' = pending - 1
    /\ status' = "Error: Permission denied"
    /\ out' = Did("deny", NoResp,
                  <<"Permission denied or error: " \o err.message>>
                    \o (IF err.name = "NotAllowedError"
                        THEN <<"User denied permission. Retry by clicking button.">>
                        ELSE <<>>),
                  <<>>, FALSE)
    /\ UNCHANGED <<stream, video, ctx, intervalId, btnDisabled, btnText, support, tts,
                   hidden, nextId, live, loading, timers, inflight, speaking, stopped>>
    /\ UNCHANGED <<unloaded, svcVars>>

\* video.onloadedmetadata of element v
LoadedMetadata(v) ==
    /\ ~unloaded
    /\ v \in loading
    /\ CaptureFits
    /\ loading' = loading \ {v}
    /\ inflight' = captureAndSend
    /\ timers' = timers \cup {v}
    /\ intervalId' = v
    /\ out' = Did("loadedmetadata", NoResp,
                  <<"Started real-time capture every 3 seconds.">>, <<>>,
                  ~CaptureReturnsEarly)
    /\ UNCHANGED <<stream, video, ctx, btnDisabled, btnText, status, support, tts,
                   hidden, pending, nextId, live, speaking, stopped>>
    /\ UNCHANGED <<unloaded, svcVars>>

\* interval timer t fires: captureAndSend()
Tick(t) ==
    /\ ~unloaded
    /\ t \in timers
    /\ CaptureFits
    /\ inflight' = captureAndSend
    /\ out' = Did("tick", NoResp, <<>>, <<>>, ~CaptureReturnsEarly)
    /\ UNCHANGED <<stream, video, ctx, intervalId, btnDisabled, btnText, status,
                   support, tts, hidden, pending, nextId, live, loading, timers,
                   speaking, stopped>>
    /\ UNCHANGED <<unloaded, svcVars>>

\* the lines captureAndSend logs for a settled fetch
ResponseLog(r) ==
    IF r.err # "" THEN <<"Network error: " \o r.err>>
    ELSE IF ResponseOk(r) THEN <<"Sent! Server response: " \o r.text>>
    ELSE <<"Send failed: " \o ToString(r.status) \o " - " \o r.statusText>>

\* mutant: the failure text goes to speech as well
ResponseSpeech_all(r) ==
    IF tts /\ ~speaking
    THEN (IF ResponseOk(r) THEN <<r.text>> ELSE ResponseLog(r))
    ELSE <<>>

\* the texts captureAndSend passes to speechSynthesis.speak for a settled fetch
ResponseSpeech(r) ==
    IF ResponseOk(r) /\ tts /\ ~speaking THEN <<r.text>> ELSE <<>>

\* mutant: the catch block gives up and clears the timer
Respond_giveup(r) ==
    /\ ~unloaded
    /\ inflight > 0
    /\ inflight' = inflight - 1
    /\ speaking' = (speaking \/ ResponseSpeech(r) # <<>>)
    /\ out' = Did("response", r, ResponseLog(r), ResponseSpeech(r), FALSE)
    /\ IF ResponseOk(r)
       THEN UNCHANGED <<timers, intervalId>>
       ELSE /\ timers' = timers \ {intervalId}
            /\ intervalId' = Null
    /\ UNCHANGED <<stream, video, ctx, btnDisabled, btnText, status,
                   support, tts, hidden, pending, nextId, live, loading,
                   stopped>>
    /\ UNCHANGED <<unloaded, svcVars>>

\* a fetch settles with r: the rest of captureAndSend
Respond(r) ==
    /\ ~unloaded
    /\ inflight > 0
    /\ inflight' = inflight - 1
    /\ speaking' = (speaking \/ ResponseSpeech(r) # <<>>)
    /\ out' = Did("response", r, ResponseLog(r), ResponseSpeech(r), FALSE)
    /\ UNCHANGED <<stream, video, ctx, intervalId, btnDisabled, btnText, status,
                   support, tts, hidden, pending, nextId, live, loading, timers,
                   stopped>>
    /\ UNCHANGED <<unloaded, svcVars>>

\* the utterance queue runs empty
SpeechEnds ==
    /\ ~unloaded
    /\ speaking
    /\ speaking' = FALSE
    /\ out' = Did("speechend", NoResp, <<>>, <<>>, FALSE)
    /\ UNCHANGED <<stream, video, ctx, intervalId, btnDisabled, btnText, status,
                   support, tts, hidden, pending, nextId, live, loading, timers,
                   inflight, stopped>>
    /\ UNCHANGED <<unloaded, svcVars>>

\* visibilitychange to hidden: if (document.hidden && stream) stopCapture()
Hide ==
    /\ ~unloaded
    /\ ~hidden
    /\ hidden' = TRUE
    /\ IF stream # Null
       THEN stopCapture("visibilitychange")
       ELSE /\ out' = Did("visibilitychange", NoResp, <<>>, <<>>, FALSE)
            /\ UNCHANGED <<stream, video, intervalId, btnDisabled, btnText, status,
                           live, loading, timers, stopped>>
    /\ UNCHANGED <<ctx, support, tts, pending, nextId, inflight, speaking>>
    /\ UNCHANGED <<unloaded, svcVars>>

\* visibilitychange to visible: the listener's condition is false
Show ==
    /\ ~unloaded
    /\ hidden
    /\ hidden' = FALSE
    /\ out' = Did("visibilitychange", NoResp, <<>>, <<>>, FALSE)
    /\ UNCHANGED <<stream, video, ctx, intervalId, btnDisabled, btnText, status,
                   support, tts, pending, nextId, live, loading, timers, inflight,
                   speaking, stopped>>
    /\ UNCHANGED <<unloaded, svcVars>>

\* beforeunload: stopCapture(); the document is unloaded after the handler
\* and no task of the page runs any more
BeforeUnload ==
    /\ ~unloaded
    /\ unloaded' = TRUE
    /\ stopCapture("beforeunload")
    /\ UNCHANGED <<ctx, support, tts, hidden, pending, nextId, inflight, speaking>>
    /\ UNCHANGED svcVars

\* the user ends the sharing of stream s in the browser's own controls
StopSharing(s) ==
    /\ ~unloaded
    /\ s \in live
    /\ live' = live \ {s}
    /\ out' = Did("streamended", NoResp, <<>>, <<>>, FALSE)
    /\ UNCHANGED <<stream, video, ctx, intervalId, btnDisabled, btnText, status,
                   support, tts, hidden, pending, nextId, loading, timers, inflight,
                   speaking, stopped>>
    /\ UNCHANGED <<unloaded, svcVars>>

\* ------------------------------------------------------ service requests
\* One POST served by app; the apps keep no state of their own.
Serve(app, req) ==
    /\ reply' = [app |-> app, req |-> req, resp |-> Dispatch(app, req)]
    /\ started' = IF req.route = "/start_capture"
                  THEN [started EXCEPT ![app] = Dispatch(app, req)]
                  ELSE started
    /\ UNCHANGED agentVars

\* -------------------------------------------------------- specifications
Init ==
    /\ reply = NoReply
    /\ started = [a \in Apps |-> NoReply.resp]
    /\ stream = Null
    /\ video = Null
    /\ ctx = Null
    /\ intervalId = Null
    /\ btnDisabled = FALSE
    /\ btnText = "Send SS"
    /\ status = "Ready"
    /\ support \in {"ok", "nomedia", "http"}
    /\ tts \in BOOLEAN
    /\ hidden = FALSE
    /\ pending = 0
    /\ nextId = 1
    /\ live = {}
    /\ loading = {}
    /\ timers = {}
    /\ inflight = 0
    /\ speaking = FALSE
    /\ unloaded = FALSE
    /\ stopped = FALSE
    /\ out = Did("load", NoResp, <<>>, <<>>, FALSE)

\* the page
Next ==
    \/ Click
    \/ Grant
    \/ \E err \in MediaErrors : Deny(err)
    \/ \E v \in StreamIds : LoadedMetadata(v)
    \/ \E t \in StreamIds : Tick(t)
    \/ \E r \in Outcomes : Respond(r)
    \/ SpeechEnds
    \/ Hide
    \/ Show
    \/ BeforeUnload
    \/ \E s \in StreamIds : StopSharing(s)

Spec == Init /\ [][Next]_vars

\* Timers armed keep firing and every fetch settles; nothing the user does
\* (clicks, grants, hiding the page, ending the share) is promised.
FairSpec ==
    /\ Init
    /\ [][Next]_vars
    /\ WF_vars(\E t \in StreamIds : Tick(t))
    /\ WF_vars(\E r \in Outcomes : Respond(r))

\* the service under any sequence of POSTs
ServiceNext == \E app \in Apps, req \in Requests : Serve(app, req)

\* the service alone: the page of one fixed browser, never clicked
ServiceInit == Init /\ support = "ok" /\ tts

ServiceSpec == ServiceInit /\ [][ServiceNext]_vars

\* ================================================================ claims
\* s contains sub as a substring
Contains(s, sub) ==
    \E i \in 1..(Len(s) - Len(sub) + 1) : SubSeq(s, i, i + Len(sub) - 1) = sub

IsUpload == reply.req.route = "/upload_screenshot"

\* the last response handled by the page was a failed upload
UploadFailed == out.op = "response" /\ ~ResponseOk(out.resp)

\* capture is running: the timer the page refers to is armed and a tick
\* would pass the guard of captureAndSend
Running == intervalId # Null /\ intervalId \in timers /\ ~CaptureReturnsEarly

\* the stream the page shows has ended (the user stopped sharing)
VideoEnded == video # Null /\ Ended(video)

\* C1: every upload without a 'screenshot' field is answered 400 with
\* {"error": "No screenshot provided"}, by main.py and by deploy_render.py.
C1_MissingField ==
    (IsUpload /\ ~FilesHas(reply.req.files, "screenshot"))
        => /\ reply.resp.status = 400
           /\ reply.resp.json = {<<"error", "No screenshot provided">>}

\* C2: every upload whose 'screenshot' part has an empty filename is
\* answered 400 with {"error": "No file selected"}, never with the advisory,
\* by main.py and by deploy_render.py.
C2_EmptyFilename ==
    (/\ IsUpload
     /\ FilesHas(reply.req.files, "screenshot")
     /\ FilesGet(reply.req.files, "screenshot").filename = "")
        => /\ reply.resp.status = 400
           /\ reply.resp.json = {<<"error", "No file selected">>}

\* C3: every upload whose 'screenshot' part has a non-empty filename is
\* answered 200 with a non-empty text body containing "Enemy spotted",
\* whatever the bytes, by main.py and by deploy_render.py.
C3_AdvisoryReturned ==
    (/\ IsUpload
     /\ FilesHas(reply.req.files, "screenshot")
     /\ FilesGet(reply.req.files, "screenshot").filename # "")
        => /\ reply.resp.status = 200
           /\ reply.resp.json = {}
           /\ reply.resp.data # ""
           /\ Contains(reply.resp.data, "Enemy spotted")

C5_OneFrameInFlight == inflight <= 1

StopOps == {"visibilitychange", "beforeunload", "streamended"}

\* C7: a failed upload leaves every timer armed and intervalId as it was;
\* a timer is disarmed, and running capture ended, only by a stop (page
\* hidden, page unload, share ended by the user); and after a failed upload,
\* while capture stays running, a later tick uploads another frame.
C7_LoopSurvivesFailure ==
    /\ [][(out'.op = "response" /\ ~ResponseOk(out'.resp))
            => (timers' = timers /\ intervalId' = intervalId)]_vars
    /\ [][(~(timers \subseteq timers') \/ (Running /\ ~Running'))
            => out'.op \in StopOps]_vars
    /\ ((UploadFailed /\ Running)
            ~> ((out.op = "tick" /\ out.uploaded) \/ ~Running))

\* C7 witness: a network error was handled while capture is running.
C7_Witness ==
    /\ UploadFailed
    /\ out.resp.err # ""
    /\ Running
    /\ ~stopped

\* C8: once stopCapture has run and until the next start, no timer is
\* armed, no track is live, stream, video and intervalId are null, and no
\* handler starts an upload or speaks.
C8_StopReleasesAll ==
    stopped
        => /\ timers = {}
           /\ live = {}
           /\ stream = Null /\ video = Null /\ intervalId = Null
           /\ ~out.uploaded
           /\ out.spoke = <<>>

\* C9: every armed timer is the one intervalId names and every live stream
\* is the one stream names.
C9_SingleTimerAndStream ==
    /\ timers \subseteq {intervalId}
    /\ live \subseteq {stream}

\* C10: once the shared stream has ended no handler uploads a frame, and the
\* agent eventually is stopped: timer cleared, start button enabled.
C10_EndedStreamStops ==
    /\ [](VideoEnded => ~out.uploaded)
    /\ (VideoEnded ~> (intervalId = Null /\ timers = {} /\ ~btnDisabled))

====
